---------------------------- MODULE Spec2Model ----------------------------
(***************************************************************************)
(* State-machine model of gemmi's SubCells (cell-linked-list atom search), *)
(* subcells.hpp.  Lengths are exact fixed-point numbers: one grid unit is  *)
(* 1/Unit of the length 1.0, so squared distances are integers and every   *)
(* comparison of the code is decided exactly.  Single-precision rounding   *)
(* of the stored coordinates is not modelled.                              *)
(*                                                                         *)
(* grid.hpp, unitcell.hpp and model.hpp are not part of the sources at     *)
(* hand; the operators that stand for them (orthorhombic unit cell, grid   *)
(* sizing and indexing, altloc compatibility, bounding box) follow the     *)
(* interface contracts of the specification, section 6.                    *)
(***************************************************************************)
EXTENDS Integers, Sequences, FiniteSets

VARIABLES
  model,             \* the structural model the index refers to (chains/residues/atoms)
  has_model,         \* SubCells::model != nullptr
  radius_specified,  \* SubCells::radius_specified
  cell,              \* grid.unit_cell
  nu, nv, nw,        \* grid.nu, grid.nv, grid.nw
  data,              \* grid.data: bucket index -> sequence of Mark
  n_populate,        \* number of completed populate() calls
  n_queries,         \* number of queries made so far
  init_call,         \* <<>>, or <<the arguments of the initialize() call>>
  last,              \* the last operation and its arguments
  out,               \* what the last operation reported / returned
  outcome            \* how the last operation ended

vars == <<model, has_model, radius_specified, cell, nu, nv, nw, data,
          n_populate, n_queries, init_call, last, out, outcome>>

index_vars == <<has_model, radius_specified, cell, nu, nv, nw, data,
                n_populate, init_call>>

-----------------------------------------------------------------------------
(* Bounds of the model *)

\* grid units per length 1.0 (fixed-point resolution)
Unit == 4

\* populate() may be called this many times on one index
MaxPopulate == 1

\* largest number of atoms in a model
MaxAtoms == 2

\* queries made on one index
MaxQueries == 1

-----------------------------------------------------------------------------
(* Small helpers *)

Max(a, b) == IF a >= b THEN a ELSE b

Min(a, b) == IF a <= b THEN a ELSE b

Abs(a) == IF a >= 0 THEN a ELSE -a

sq(a) == a * a

\* C++ int(double): truncation toward zero of the rational n/d, d > 0
Trunc(n, d) == IF n >= 0 THEN n \div d ELSE -((-n) \div d)

\* floor of the rational n/d, d > 0
Floor(n, d) == n \div d

RECURSIVE Concat(_)
Concat(ss) == IF ss = <<>> THEN <<>> ELSE Head(ss) \o Concat(Tail(ss))

SeqToSet(s) == {s[i] : i \in 1..Len(s)}

-----------------------------------------------------------------------------
(* Unit cell: orthorhombic, lengths a, b, c in grid units.  A Fractional   *)
(* is a triple of numerators over the common denominator Den(c).           *)

NoAltloc == ""

Den(c) == c.a * c.b * c.c

Fractionalize(c, pos) ==
  <<pos[1] * (c.b * c.c), pos[2] * (c.a * c.c), pos[3] * (c.a * c.b)>>

Orthogonalize(c, fr) ==
  <<Floor(fr[1], c.b * c.c), Floor(fr[2], c.a * c.c), Floor(fr[3], c.a * c.b)>>

wrap_to_unit(c, fr) == <<fr[1] % Den(c), fr[2] % Den(c), fr[3] % Den(c)>>

\* a symmetry image: a sign per axis applied to the fractional coordinates
ImageApply(op, fr) == <<op[1] * fr[1], op[2] * fr[2], op[3] * fr[3]>>

\* UnitCell() default: a = b = c = 1.0, not a crystal, no images
DefaultCell == [a |-> Unit, b |-> Unit, c |-> Unit, images |-> <<>>]

is_same_conformer(alt1, alt2) == alt1 = NoAltloc \/ alt2 = NoAltloc \/ alt1 = alt2

is_hydrogen(atom) == atom.element = "H"

-----------------------------------------------------------------------------
(* Structural model: a sequence of chains, each a sequence of residues,    *)
(* each a sequence of atoms [pos, altloc, element].                        *)

AtomsOfResidue(res, n_ch, n_res) ==
  [i \in 1..Len(res) |->
     [n_ch |-> n_ch, n_res |-> n_res, n_atom |-> i - 1, atom |-> res[i]]]

AtomsOfChain(chain, n_ch) ==
  Concat([j \in 1..Len(chain) |-> AtomsOfResidue(chain[j], n_ch, j - 1)])

\* the atoms in chain/residue/atom iteration order, with their 0-based indices
AtomList(m) == Concat([k \in 1..Len(m) |-> AtomsOfChain(m[k], k - 1)])

\* BoundingBox::get_size() of all atom positions, per axis
BoxSize(m) ==
  LET ps == {e.atom.pos : e \in SeqToSet(AtomList(m))}
      Hi(i) == CHOOSE x \in {p[i] : p \in ps} : \A p \in ps : p[i] <= x
      Lo(i) == CHOOSE x \in {p[i] : p \in ps} : \A p \in ps : p[i] >= x
  IN  <<Hi(1) - Lo(1), Hi(2) - Lo(2), Hi(3) - Lo(3)>>

-----------------------------------------------------------------------------
(* Periodic bucket grid *)

\* Grid::index_q: wrap-aware flat index
index_q(n, u, v, w) == ((w % n[3]) * n[2] + (v % n[2])) * n[1] + (u % n[1])

\* Grid::index_n: direct flat index
index_n(n, u, v, w) == (w * n[2] + v) * n[1] + u

\* Grid::set_size_from_spacing(spacing, denser = false): the largest count
\* whose bucket is at least `spacing` wide, and at least one bucket
SetSizeFromSpacing(c, spacing) ==
  <<Max(1, Floor(c.a, spacing)), Max(1, Floor(c.b, spacing)),
    Max(1, Floor(c.c, spacing))>>

EmptyData(n) == [i \in 0..(n[1] * n[2] * n[3] - 1) |-> <<>>]

-----------------------------------------------------------------------------
(* SubCells::initialize *)

\* mutant: the margin of the box is one radius
InitCell_SmallMargin(m, cell_, max_radius) ==
  IF cell_.crystal
    THEN [a |-> cell_.a, b |-> cell_.b, c |-> cell_.c, images |-> cell_.images]
    ELSE LET size == BoxSize(m)
         IN  [a |-> size[1] + max_radius, b |-> size[2] + max_radius,
              c |-> size[3] + max_radius, images |-> DefaultCell.images]

\* the grid's unit cell: the crystal cell, or a box around the atoms
InitCell(m, cell_, max_radius) ==
  IF cell_.crystal
    THEN [a |-> cell_.a, b |-> cell_.b, c |-> cell_.c, images |-> cell_.images]
    ELSE LET margin == 4 * max_radius
             size == BoxSize(m)
         IN  [a |-> size[1] + margin, b |-> size[2] + margin,
              c |-> size[3] + margin, images |-> DefaultCell.images]

\* mutant: the floor sets every axis to 3 buckets
InitSize_AllThree(gcell, max_radius) ==
  LET n == SetSizeFromSpacing(gcell, max_radius)
  IN  IF n[1] < 3 \/ n[2] < 3 \/ n[3] < 3 THEN <<3, 3, 3>> ELSE n

\* the bucket counts: from the spacing, then at least 3 per axis
InitSize(gcell, max_radius) ==
  LET n == SetSizeFromSpacing(gcell, max_radius)
  IN  IF n[1] < 3 \/ n[2] < 3 \/ n[3] < 3
        THEN <<Max(n[1], 3), Max(n[2], 3), Max(n[3], 3)>>
        ELSE n

-----------------------------------------------------------------------------
(* SubCells::populate and SubCells::add_atom *)

Mark(pos, alt, el, im, ch, res, atom) ==
  [pos |-> pos, altloc |-> alt, element |-> el, image_idx |-> im,
   chain_idx |-> ch, residue_idx |-> res, atom_idx |-> atom]

\* per-axis bucket index of a fractional coordinate: int(fr * count)
SubcellAxis(c, n, fr, i) == Trunc(fr[i] * n[i], Den(c))

\* SubCells::get_subcell: the flat index of the bucket of a wrapped Fractional
get_subcell(c, n, fr) ==
  index_n(n, SubcellAxis(c, n, fr, 1), SubcellAxis(c, n, fr, 2),
          SubcellAxis(c, n, fr, 3))

\* the wrapped fractional position of image k of an atom (k = 0: the atom itself)
ImageFrac(c, frac0, k) ==
  IF k = 0 THEN wrap_to_unit(c, frac0)
           ELSE wrap_to_unit(c, ImageApply(c.images[k], frac0))

RECURSIVE AddImages(_, _, _, _, _)
AddImages(d, c, n, e, k) ==
  IF k > Len(c.images) THEN d
  ELSE LET frac == ImageFrac(c, Fractionalize(c, e.atom.pos), k)
           pos  == Orthogonalize(c, frac)
           idx  == get_subcell(c, n, frac)
           mk   == Mark(pos, e.atom.altloc, e.atom.element, k,
                        e.n_ch, e.n_res, e.n_atom)
       IN  AddImages([d EXCEPT ![idx] = Append(@, mk)], c, n, e, k + 1)

\* mutant: the Record of the atom's own position is left out
add_atom_NoIdentity(d, c, n, e) == AddImages(d, c, n, e, 1)

add_atom(d, c, n, e) == AddImages(d, c, n, e, 0)

RECURSIVE PopulateFrom(_, _, _, _, _)
PopulateFrom(d, c, n, atoms, include_h) ==
  IF atoms = <<>> THEN d
  ELSE LET e == Head(atoms)
           d1 == IF include_h \/ ~is_hydrogen(e.atom)
                   THEN add_atom(d, c, n, e) ELSE d
       IN  PopulateFrom(d1, c, n, Tail(atoms), include_h)

-----------------------------------------------------------------------------
(* SubCells::for_each.  A radius is a rational <<num, den>> of grid units,  *)
(* so that a caller may pass any float.                                    *)

\* Mark::dist_sq
MarkDistSq(a, p) ==
  sq(p[1] - a.pos[1]) + sq(p[2] - a.pos[2]) + sq(p[3] - a.pos[3])

\* the lattice shift of a stencil index: -1 past the end, +1 before the start
LatticeShift(x, cnt) == IF x >= cnt THEN -1 ELSE IF x < 0 THEN 1 ELSE 0

\* radius <= 0.f
RadiusNotPositive(radius) == radius[1] <= 0

\* dist_sq < sq(radius)
WithinRadius(dist_sq, radius) == dist_sq * sq(radius[2]) < sq(radius[1])

\* the home bucket of a query position: int(fr * count) on each axis
HomeBucket(c, n, pos) ==
  LET fr == wrap_to_unit(c, Fractionalize(c, pos))
  IN  <<SubcellAxis(c, n, fr, 1), SubcellAxis(c, n, fr, 2),
        SubcellAxis(c, n, fr, 3)>>

\* the 27 stencil indices <<u, v, w>> around a home bucket, in scan order:
\* w in the outer loop, v in the middle one, u in the inner one
Stencil(h) ==
  [i \in 1..27 |-> <<h[1] + ((i - 1) % 3) - 1,
                     h[2] + (((i - 1) \div 3) % 3) - 1,
                     h[3] + ((i - 1) \div 9) - 1>>]

\* mutant: the shifted index is used as the flat index of the u axis only
StencilIndex_NoRowStride(n, s) ==
  index_q(<<n[1], 1, 1>>, s[1] + LatticeShift(s[1], n[1]) * n[1], 0, 0)

\* the flat index of the bucket visited for the stencil index s
StencilIndex(n, s) ==
  index_q(n, s[1] + LatticeShift(s[1], n[1]) * n[1],
             s[2] + LatticeShift(s[2], n[2]) * n[2],
             s[3] + LatticeShift(s[3], n[3]) * n[3])

\* the hits of one stencil bucket (u, v, w), in bucket order
ForEachBucket(c, n, d, fr, u, v, w, alt, radius) ==
  LET du  == LatticeShift(u, n[1])
      dv  == LatticeShift(v, n[2])
      dw  == LatticeShift(w, n[3])
      idx == StencilIndex(n, <<u, v, w>>)
      p   == Orthogonalize(c, <<fr[1] + du * Den(c), fr[2] + dv * Den(c),
                                fr[3] + dw * Den(c)>>)
      cand == [i \in 1..Len(d[idx]) |->
                 [mark |-> d[idx][i], dist_sq |-> MarkDistSq(d[idx][i], p)]]
  IN  SelectSeq(cand, LAMBDA h : /\ WithinRadius(h.dist_sq, radius)
                                 /\ is_same_conformer(alt, h.mark.altloc))

\* the callbacks of for_each(pos, alt, radius), in call order
ForEachHits(c, n, d, pos, alt, radius) ==
  IF RadiusNotPositive(radius) THEN <<>>
  ELSE LET fr == wrap_to_unit(c, Fractionalize(c, pos))
           st == Stencil(HomeBucket(c, n, pos))
       IN  Concat([i \in 1..27 |->
                     ForEachBucket(c, n, d, fr, st[i][1], st[i][2], st[i][3],
                                   alt, radius)])

\* for_each on a grid without buckets: index_q divides by a zero bucket count
\* and grid.data has no element to read
ForEachUndefined(n, radius) ==
  ~RadiusNotPositive(radius) /\ (n[1] = 0 \/ n[2] = 0 \/ n[3] = 0)

-----------------------------------------------------------------------------
(* Convenience queries *)

FindAtomsOut(c, n, d, pos, alt, radius) ==
  LET hits == ForEachHits(c, n, d, pos, alt, radius)
  IN  [i \in 1..Len(hits) |-> hits[i].mark]

\* keeps the hits with dist_sq > sq(min_dist)
FindNeighborsOut(c, n, d, atom, min_dist, max_dist) ==
  LET hits == ForEachHits(c, n, d, atom.pos, atom.altloc, max_dist)
      kept == SelectSeq(hits, LAMBDA h :
                 h.dist_sq * sq(min_dist[2]) > sq(min_dist[1]))
  IN  [i \in 1..Len(kept) |-> kept[i].mark]

\* the radius find_nearest_atom hands to for_each: the float
\* radius_specified * radius_specified, a number of length units
NearestScanRadius(rs) == <<rs * rs, Unit>>

\* the lambda of find_nearest_atom over the callbacks in order;
\* best = [mark, dist_sq <<num, den>>]; mark is <<>> for the null pointer and
\* <<m>> once it points to the Mark m
RECURSIVE NearestFold(_, _)
NearestFold(hits, best) ==
  IF hits = <<>> THEN best
  ELSE LET h == Head(hits)
       IN  NearestFold(Tail(hits),
             IF h.dist_sq * best.dist_sq[2] < best.dist_sq[1]
               THEN [mark |-> <<h.mark>>, dist_sq |-> <<h.dist_sq, 1>>]
               ELSE best)

FindNearestAtomOut(c, n, d, rs, pos) ==
  NearestFold(ForEachHits(c, n, d, pos, NoAltloc, NearestScanRadius(rs)),
              [mark |-> <<>>, dist_sq |-> <<rs * rs, 1>>]).mark

-----------------------------------------------------------------------------
(* SubCells::for_each_contact *)

\* ContactConfig::special_pos_cutoff_sq default, 0.8f * 0.8f, in grid units
DefaultSpecialPosCutoffSq == <<8 * 8 * Unit * Unit, 10 * 10>>

\* mutant: the image id of the hit is not looked at
SkipIntraResidue_AnyImage(conf, e, h) ==
  /\ conf.skip_intra_residue_links
  /\ h.mark.chain_idx = e.n_ch
  /\ h.mark.residue_idx = e.n_res

\* rule 1: do not consider connections inside a residue
SkipIntraResidue(conf, e, h) ==
  /\ conf.skip_intra_residue_links
  /\ h.mark.image_idx = 0
  /\ h.mark.chain_idx = e.n_ch
  /\ h.mark.residue_idx = e.n_res

\* mutant: only the chain index is compared
SkipReverse_ChainOnly(e, h) == h.mark.chain_idx < e.n_ch

\* rule 2: avoid reporting connections twice (A-B and B-A)
SkipReverse(e, h) ==
  \/ h.mark.chain_idx < e.n_ch
  \/ /\ h.mark.chain_idx = e.n_ch
     /\ \/ h.mark.residue_idx < e.n_res
        \/ /\ h.mark.residue_idx = e.n_res
           /\ h.mark.atom_idx < e.n_atom

\* mutant: every hit on the atom itself is dropped, whatever the distance
SkipSpecialPosition_AnyDistance(conf, e, h) ==
  /\ h.mark.chain_idx = e.n_ch
  /\ h.mark.residue_idx = e.n_res
  /\ h.mark.atom_idx = e.n_atom

\* rule 3: an atom too close to its own image is on a special position
SkipSpecialPosition(conf, e, h) ==
  /\ h.mark.chain_idx = e.n_ch
  /\ h.mark.residue_idx = e.n_res
  /\ h.mark.atom_idx = e.n_atom
  /\ h.dist_sq * conf.special_pos_cutoff_sq[2] < conf.special_pos_cutoff_sq[1]

ContactAccepted(conf, e, h) ==
  /\ ~SkipIntraResidue(conf, e, h)
  /\ ~SkipReverse(e, h)
  /\ ~SkipSpecialPosition(conf, e, h)

\* the callbacks made while scanning from atom e
ContactsOfAtom(c, n, d, conf, e) ==
  LET hits == ForEachHits(c, n, d, e.atom.pos, e.atom.altloc,
                          conf.search_radius)
      kept == SelectSeq(hits, LAMBDA h : ContactAccepted(conf, e, h))
  IN  [i \in 1..Len(kept) |->
         [cra1 |-> <<e.n_ch, e.n_res, e.n_atom>>,
          cra2 |-> <<kept[i].mark.chain_idx, kept[i].mark.residue_idx,
                     kept[i].mark.atom_idx>>,
          image_idx |-> kept[i].mark.image_idx,
          dist_sq |-> kept[i].dist_sq]]

ForEachContactOut(m, c, n, d, conf) ==
  LET atoms == AtomList(m)
  IN  Concat([i \in 1..Len(atoms) |-> ContactsOfAtom(c, n, d, conf, atoms[i])])

-----------------------------------------------------------------------------
(* Inputs *)

\* atoms a model is built from: [pos, altloc, element]
AtomSet ==
  { [pos |-> <<1, 1, 1>>, altloc |-> "",  element |-> "C"],
    [pos |-> <<9, 1, 1>>, altloc |-> "",  element |-> "C"],
    [pos |-> <<3, 2, 1>>, altloc |-> "B", element |-> "N"],
    [pos |-> <<2, 1, 2>>, altloc |-> "",  element |-> "H"],
    [pos |-> <<5, 1, 1>>, altloc |-> "A", element |-> "O"] }

\* what separates an atom from the one before it
Gaps == {"same", "residue", "chain"}

RECURSIVE BuildModel(_, _, _)
BuildModel(m, atoms, gaps) ==
  IF atoms = <<>> THEN m
  ELSE LET a  == Head(atoms)
           nc == Len(m)
           nr == Len(m[nc])
           m1 == CASE Head(gaps) = "same" ->
                        [m EXCEPT ![nc][nr] = Append(@, a)]
                   [] Head(gaps) = "residue" ->
                        [m EXCEPT ![nc] = Append(@, <<a>>)]
                   [] OTHER -> Append(m, << <<a>> >>)
       IN  BuildModel(m1, Tail(atoms), Tail(gaps))

\* every model of 1..MaxAtoms distinct atoms, split into residues and chains
Models ==
  UNION { { BuildModel(<< << <<as[1]>> >> >>, Tail(as), gs) :
              as \in {f \in [1..k -> AtomSet] :
                        \A i, j \in 1..k : i # j => f[i] # f[j]},
              gs \in [1..(k - 1) -> Gaps] } : k \in 1..MaxAtoms }

\* symmetry images: a sign per axis
TwoFoldZ  == <<-1, -1, 1>>
Inversion == <<-1, -1, -1>>
MirrorZ   == <<1, 1, -1>>

\* the unit cells handed to initialize
Cells ==
  { [crystal |-> TRUE, a |-> 10, b |-> 12, c |-> 14, images |-> <<>>],
    [crystal |-> TRUE, a |-> 10, b |-> 12, c |-> 14, images |-> <<TwoFoldZ>>],
    [crystal |-> TRUE, a |-> 12, b |-> 16, c |-> 13,
     images |-> <<TwoFoldZ, Inversion, MirrorZ>>],
    [crystal |-> TRUE, a |-> 7, b |-> 12, c |-> 12, images |-> <<>>],
    [crystal |-> FALSE, a |-> Unit, b |-> Unit, c |-> Unit, images |-> <<>>] }

\* max_radius of initialize, and the radii of the queries
MaxRadii == {3, 4}

QueryRadii == {<<0, 1>>, <<3, 1>>, <<4, 1>>}

QueryPos == {<<2, 1, 1>>, <<-1, -1, 1>>, <<5, 1, 1>>}

Altlocs == {NoAltloc, "A", "B"}

ContactConfigs ==
  [search_radius : {<<3, 1>>, <<4, 1>>},
   skip_intra_residue_links : BOOLEAN,
   special_pos_cutoff_sq : {DefaultSpecialPosCutoffSq, <<4, 1>>}]

-----------------------------------------------------------------------------
(* The state machine *)

\* SubCells() = default: no model, radius 0, an empty grid on the default cell
Init ==
  /\ model \in Models
  /\ has_model = FALSE
  /\ radius_specified = 0
  /\ cell = DefaultCell
  /\ nu = 0 /\ nv = 0 /\ nw = 0
  /\ data = <<>>
  /\ n_populate = 0
  /\ n_queries = 0
  /\ init_call = <<>>
  /\ last = [op |-> "construct"]
  /\ out = <<>>
  /\ outcome = "ok"

Alive == outcome # "crash"

\* initialize(model, cell_, max_radius) on a newly constructed index
Initialize(cell_, max_radius) ==
  /\ Alive
  /\ ~has_model
  /\ LET gcell == InitCell(model, cell_, max_radius)
         n     == InitSize(gcell, max_radius)
     IN  /\ cell' = gcell
         /\ nu' = n[1] /\ nv' = n[2] /\ nw' = n[3]
         /\ data' = EmptyData(n)
  /\ has_model' = TRUE
  /\ radius_specified' = max_radius
  /\ init_call' = <<[cell |-> cell_, max_radius |-> max_radius]>>
  /\ last' = [op |-> "initialize", cell |-> cell_, max_radius |-> max_radius]
  /\ out' = <<>>
  /\ outcome' = "ok"
  /\ UNCHANGED <<model, n_populate, n_queries>>

\* populate(include_h)
Populate(include_h) ==
  /\ Alive
  /\ n_populate < MaxPopulate
  /\ last' = [op |-> "populate", include_h |-> include_h]
  /\ out' = <<>>
  /\ IF ~has_model
       THEN /\ outcome' = "fail"
            /\ UNCHANGED <<model, index_vars>>
       ELSE /\ data' = PopulateFrom(data, cell, <<nu, nv, nw>>,
                                    AtomList(model), include_h)
            /\ n_populate' = n_populate + 1
            /\ outcome' = "ok"
            /\ UNCHANGED <<model, has_model, radius_specified, cell, nu, nv, nw,
                           init_call>>
  /\ UNCHANGED n_queries

\* a query is made on a live process
Query ==
  /\ Alive
  /\ n_queries < MaxQueries
  /\ n_queries' = n_queries + 1

\* what a query that runs into ForEachUndefined may do: stop the process, or
\* return without a callback
Undefined ==
  /\ outcome' \in {"crash", "ok"}
  /\ out' = <<>>

\* for_each(pos, alt, radius, func), func recording its arguments
ForEach(pos, alt, radius) ==
  /\ Query
  /\ last' = [op |-> "for_each", pos |-> pos, alt |-> alt, radius |-> radius]
  /\ IF ForEachUndefined(<<nu, nv, nw>>, radius)
       THEN Undefined
       ELSE /\ out' = ForEachHits(cell, <<nu, nv, nw>>, data, pos, alt, radius)
            /\ outcome' = "ok"
  /\ UNCHANGED <<model, index_vars>>

\* find_atoms(pos, alt, radius)
FindAtoms(pos, alt, radius) ==
  /\ Query
  /\ last' = [op |-> "find_atoms", pos |-> pos, alt |-> alt, radius |-> radius]
  /\ IF ForEachUndefined(<<nu, nv, nw>>, radius)
       THEN Undefined
       ELSE /\ out' = FindAtomsOut(cell, <<nu, nv, nw>>, data, pos, alt, radius)
            /\ outcome' = "ok"
  /\ UNCHANGED <<model, index_vars>>

\* find_neighbors(atom, min_dist, max_dist)
FindNeighbors(atom, min_dist, max_dist) ==
  /\ Query
  /\ last' = [op |-> "find_neighbors", atom |-> atom, min_dist |-> min_dist,
              max_dist |-> max_dist]
  /\ IF ForEachUndefined(<<nu, nv, nw>>, max_dist)
       THEN Undefined
       ELSE /\ out' = FindNeighborsOut(cell, <<nu, nv, nw>>, data, atom,
                                       min_dist, max_dist)
            /\ outcome' = "ok"
  /\ UNCHANGED <<model, index_vars>>

\* find_nearest_atom(pos); out is <<mark>> or <<>> for a null result
FindNearestAtom(pos) ==
  /\ Query
  /\ last' = [op |-> "find_nearest_atom", pos |-> pos]
  /\ IF ForEachUndefined(<<nu, nv, nw>>, NearestScanRadius(radius_specified))
       THEN Undefined
       ELSE /\ out' = FindNearestAtomOut(cell, <<nu, nv, nw>>, data,
                                         radius_specified, pos)
            /\ outcome' = "ok"
  /\ UNCHANGED <<model, index_vars>>

\* for_each_contact(conf, func), func recording its arguments
ForEachContact(conf) ==
  /\ Query
  /\ last' = [op |-> "for_each_contact", conf |-> conf]
  /\ IF ~has_model
       THEN /\ outcome' = "fail"
            /\ out' = <<>>
       ELSE /\ out' = ForEachContactOut(model, cell, <<nu, nv, nw>>, data, conf)
            /\ outcome' = "ok"
  /\ UNCHANGED <<model, index_vars>>

Next ==
  \/ \E c \in Cells, r \in MaxRadii : Initialize(c, r)
  \/ \E h \in BOOLEAN : Populate(h)
  \/ \E p \in QueryPos, alt \in Altlocs, r \in QueryRadii : ForEach(p, alt, r)
  \/ \E p \in QueryPos, alt \in Altlocs, r \in QueryRadii : FindAtoms(p, alt, r)
  \/ \E e \in SeqToSet(AtomList(model)), lo \in {<<0, 1>>, <<2, 1>>},
        hi \in QueryRadii : FindNeighbors(e.atom, lo, hi)
  \/ \E p \in QueryPos : FindNearestAtom(p)
  \/ \E conf \in ContactConfigs : ForEachContact(conf)

Spec == Init /\ [][Next]_vars

\* building the index only
NextBuild ==
  \/ \E c \in Cells, r \in MaxRadii : Initialize(c, r)
  \/ \E h \in BOOLEAN : Populate(h)

SpecBuild == Init /\ [][NextBuild]_vars

\* building the index and scanning it with for_each
NextForEach ==
  \/ \E c \in Cells, r \in MaxRadii : Initialize(c, r)
  \/ \E h \in BOOLEAN : Populate(h)
  \/ \E p \in QueryPos, alt \in Altlocs, r \in QueryRadii : ForEach(p, alt, r)

SpecForEach == Init /\ [][NextForEach]_vars

\* building the index and asking for the nearest atom
NextNearest ==
  \/ \E c \in Cells, r \in MaxRadii : Initialize(c, r)
  \/ \E h \in BOOLEAN : Populate(h)
  \/ \E p \in QueryPos : FindNearestAtom(p)

SpecNearest == Init /\ [][NextNearest]_vars

\* building the index and enumerating contacts
NextContact ==
  \/ \E c \in Cells, r \in MaxRadii : Initialize(c, r)
  \/ \E h \in BOOLEAN : Populate(h)
  \/ \E conf \in ContactConfigs : ForEachContact(conf)

SpecContact == Init /\ [][NextContact]_vars

-----------------------------------------------------------------------------
(* Reference notions the properties are stated with *)

Count(seq, x) == Cardinality({i \in DOMAIN seq : seq[i] = x})

\* every stored Record, bucket after bucket
AllMarks(d) == Concat([i \in 1..Cardinality(DOMAIN d) |-> d[i - 1]])

Initialized == has_model /\ outcome # "crash"

CellLen(c, i) == IF i = 1 THEN c.a ELSE IF i = 2 THEN c.b ELSE c.c

GridN == <<nu, nv, nw>>

\* per-axis bucket coordinates of a flat bucket index
BucketAxis(idx, i) ==
  IF i = 1 THEN idx % nu
  ELSE IF i = 2 THEN (idx \div nu) % nv
  ELSE idx \div (nu * nv)

\* distance along one axis of length len to the nearest periodic copy
MinImage(d, len) == Min(d % len, len - (d % len))

\* UnitCell::distance_sq: squared distance of p to the nearest periodic copy
\* of q in the orthorhombic cell c
PeriodicDistSq(c, p, q) ==
  sq(MinImage(p[1] - q[1], c.a)) + sq(MinImage(p[2] - q[2], c.b))
    + sq(MinImage(p[3] - q[3], c.c))

\* the buckets are at least radius_specified wide on every axis
BucketsWideEnough ==
  \A i \in 1..3 : CellLen(cell, i) >= radius_specified * GridN[i]

-----------------------------------------------------------------------------
(* C4 *)

\* C4: after initialize, the bucket extent on every axis (cell length divided
\* by the bucket count) is at least max_radius, also on an axis that the floor
\* of 3 buckets has grown.  Extent >= radius is length >= radius * count.
C4_BucketExtentAtLeastRadius ==
  Initialized =>
    \A i \in 1..3 : CellLen(cell, i) >= radius_specified * GridN[i]

-----------------------------------------------------------------------------
(* C5 *)

\* C5: after initialize the grid has at least 3 buckets on each axis, and an
\* axis to which the spacing rule gave 3 or more buckets keeps that count.
C5_AtLeastThreeBuckets ==
  Initialized =>
    \A i \in 1..3 :
      /\ GridN[i] >= 3
      /\ LET fromSpacing == Max(1, CellLen(cell, i) \div radius_specified)
         IN  fromSpacing >= 3 => GridN[i] = fromSpacing

\* an initialized grid where the floor raised one axis and left another,
\* larger one alone
C5_Witness ==
  /\ Initialized
  /\ cell.a \div radius_specified < 3 /\ nu = 3
  /\ cell.b \div radius_specified > 3 /\ nv > 3

-----------------------------------------------------------------------------
(* C10 *)

\* the wrapped position of image k of an atom, in grid units per axis
ImagePos(c, pos, k) ==
  LET s == IF k = 0 THEN <<1, 1, 1>> ELSE c.images[k]
  IN  <<(s[1] * pos[1]) % c.a, (s[2] * pos[2]) % c.b, (s[3] * pos[3]) % c.c>>

\* the positions in d of the Records of atom e with image id k: <<bucket, slot>>
RecordsOf(d, e, k) ==
  {bs \in UNION {{<<b, j>> : j \in 1..Len(d[b])} : b \in DOMAIN d} :
     LET mk == d[bs[1]][bs[2]]
     IN  /\ mk.chain_idx = e.n_ch /\ mk.residue_idx = e.n_res
         /\ mk.atom_idx = e.n_atom /\ mk.image_idx = k}

-----------------------------------------------------------------------------
(* C2 *)

\* radius is positive and at most radius_specified
RadiusInRange(radius) ==
  radius[1] > 0 /\ radius[1] <= radius_specified * radius[2]

\* the Record mk is within `radius` of pos by the periodic distance and its
\* altloc agrees with alt
Qualifies(mk, pos, alt, radius) ==
  /\ PeriodicDistSq(cell, mk.pos, pos) * sq(radius[2]) < sq(radius[1])
  /\ (alt = NoAltloc \/ mk.altloc = NoAltloc \/ alt = mk.altloc)

\* out holds exactly the Records that qualify, each as often as it is stored,
\* with the periodic squared distance
ExactlyTheQualifying(pos, alt, radius) ==
  LET marks == AllMarks(data)
  IN  /\ \A mk \in SeqToSet(marks) :
           Count(out, [mark |-> mk,
                       dist_sq |-> PeriodicDistSq(cell, mk.pos, pos)])
             = IF Qualifies(mk, pos, alt, radius) THEN Count(marks, mk) ELSE 0
      /\ \A i \in DOMAIN out :
           /\ out[i].mark \in SeqToSet(marks)
           /\ out[i].dist_sq = PeriodicDistSq(cell, out[i].mark.pos, pos)

ForEachDone ==
  last.op = "for_each" /\ outcome = "ok" /\ has_model /\ n_populate >= 1

\* C2: on a populated index, for_each with 0 < r <= radius_specified calls back
\* for exactly the stored Records whose periodic squared distance to the query
\* point is below r^2 and whose altloc is compatible, passing that distance.
C2_ForEachExact ==
  (ForEachDone /\ RadiusInRange(last.radius)) =>
    ExactlyTheQualifying(last.pos, last.alt, last.radius)

\* the same where every bucket is at least radius_specified wide
C2_ForEachExactWideBuckets ==
  (ForEachDone /\ RadiusInRange(last.radius) /\ BucketsWideEnough) =>
    ExactlyTheQualifying(last.pos, last.alt, last.radius)

-----------------------------------------------------------------------------
(* C3 *)

\* the first hit of least squared distance, <<>> when there is no hit
FirstNearest(hits) ==
  IF hits = <<>> THEN <<>>
  ELSE LET i == CHOOSE i \in DOMAIN hits :
                  /\ \A j \in DOMAIN hits : hits[i].dist_sq <= hits[j].dist_sq
                  /\ \A j \in 1..(i - 1) : hits[j].dist_sq > hits[i].dist_sq
       IN  <<hits[i].mark>>

NearestDone == last.op = "find_nearest_atom" /\ outcome = "ok" /\ has_model

\* C3: find_nearest_atom(pos) scans with radius radius_specified: the result is
\* null exactly when no stored Record is within radius_specified of pos, and
\* otherwise the Record of least squared distance among those within
\* radius_specified, the first of them in scan order on a tie; for every
\* positive radius_specified, also below 1.
C3_NearestWithinRadiusSpecified ==
  NearestDone =>
    LET within == {mk \in SeqToSet(AllMarks(data)) :
                     PeriodicDistSq(cell, mk.pos, last.pos) < sq(radius_specified)}
    IN  /\ (out = <<>>) <=> (within = {})
        /\ out # <<>> =>
             /\ out[1] \in within
             /\ \A mk \in within : PeriodicDistSq(cell, out[1].pos, last.pos)
                                     <= PeriodicDistSq(cell, mk.pos, last.pos)
        /\ out = FirstNearest(ForEachHits(cell, GridN, data, last.pos, NoAltloc,
                                          <<radius_specified, 1>>))

\* the same for an index with wide buckets built for a radius of at least 1
C3_NearestRadiusAtLeastOne ==
  (NearestDone /\ BucketsWideEnough /\ radius_specified >= Unit) =>
    C3_NearestWithinRadiusSpecified

\* the claim's case with wide buckets: it fails for a radius below 1 alone
C3_NearestWideBuckets ==
  (NearestDone /\ BucketsWideEnough) => C3_NearestWithinRadiusSpecified

-----------------------------------------------------------------------------
(* C6 *)

Operations ==
  {"populate", "for_each", "find_atoms", "find_neighbors", "find_nearest_atom",
   "for_each_contact"}

\* the index is as the default constructor left it
IndexUntouched ==
  /\ nu = 0 /\ nv = 0 /\ nw = 0 /\ data = <<>>
  /\ radius_specified = 0 /\ cell = DefaultCell /\ n_populate = 0

\* the last call asked for a scan with a radius that is not positive, which
\* is no error but an empty answer
DegenerateRadius ==
  \/ last.op \in {"for_each", "find_atoms"} /\ RadiusNotPositive(last.radius)
  \/ last.op = "find_neighbors" /\ RadiusNotPositive(last.max_dist)

\* C6: on an index without a model reference every populate and every query
\* ends in the fatal "not initialized" error, reports no Record and leaves the
\* index unchanged.
C6_UninitializedAlwaysFails ==
  (~has_model /\ last.op \in Operations /\ ~DegenerateRadius) =>
    (outcome = "fail" /\ out = <<>> /\ IndexUntouched)

\* the two operations that test the model reference do end that way
C6_GuardedOperationsFail ==
  (~has_model /\ last.op \in {"populate", "for_each_contact"}) =>
    (outcome = "fail" /\ out = <<>> /\ IndexUntouched)

-----------------------------------------------------------------------------
(* Contact enumeration: common notions *)

Atoms == AtomList(model)

Idx(e) == <<e.n_ch, e.n_res, e.n_atom>>

SameResidue(e1, e2) == e1.n_ch = e2.n_ch /\ e1.n_res = e2.n_res

Compatible(alt1, alt2) == alt1 = NoAltloc \/ alt2 = NoAltloc \/ alt1 = alt2

EuclidDistSq(p, q) == sq(p[1] - q[1]) + sq(p[2] - q[2]) + sq(p[3] - q[3])

ContactDone == last.op = "for_each_contact" /\ outcome = "ok"

\* callbacks made from the scan of atom i for image k of atom j
Reports(i, j, k) ==
  Cardinality({x \in DOMAIN out :
                 /\ out[x].cra1 = Idx(Atoms[i])
                 /\ out[x].cra2 = Idx(Atoms[j])
                 /\ out[x].image_idx = k})

\* callbacks made for the unordered pair of atoms i and j
PairReports(i, j) ==
  Cardinality({x \in DOMAIN out :
                 {out[x].cra1, out[x].cra2} = {Idx(Atoms[i]), Idx(Atoms[j])}})

\* one populate(include_h = true): every atom has one Record per image id
PopulatedAll ==
  /\ n_populate = 1
  /\ \A i \in DOMAIN Atoms : \A k \in 0..Len(cell.images) :
       Cardinality(RecordsOf(data, Atoms[i], k)) = 1

\* distance < radius, for a rational radius
Below(dist_sq, radius) == dist_sq * sq(radius[2]) < sq(radius[1])

AtMost(dist_sq, radius) == dist_sq * sq(radius[2]) <= sq(radius[1])

-----------------------------------------------------------------------------
(* C1 *)

ContactDue(i, j, k, conf) ==
  /\ i < j
  /\ Compatible(Atoms[i].atom.altloc, Atoms[j].atom.altloc)
  /\ Below(PeriodicDistSq(cell, ImagePos(cell, Atoms[j].atom.pos, k),
                          Atoms[i].atom.pos), conf.search_radius)
  /\ ~(conf.skip_intra_residue_links /\ k = 0 /\ SameResidue(Atoms[i], Atoms[j]))

-----------------------------------------------------------------------------
(* C7 *)

NonCrystal == init_call # <<>> /\ ~init_call[1].cell.crystal

\* the box initialize builds for a non-periodic model: span + 4 x max_radius
BoxIsSpanPlusMargin ==
  \A i \in 1..3 :
    CellLen(cell, i) =
      LET xs == {Atoms[x].atom.pos[i] : x \in DOMAIN Atoms}
      IN  (CHOOSE hi \in xs : \A y \in xs : y <= hi)
            - (CHOOSE lo \in xs : \A y \in xs : y >= lo)
            + 4 * init_call[1].max_radius

\* no callback comes from wrap-around: each pairs two different atoms at
\* their plain distance, by the identity image
NoWrapAroundContact ==
  \A x \in DOMAIN out : \A i, j \in DOMAIN Atoms :
    (out[x].cra1 = Idx(Atoms[i]) /\ out[x].cra2 = Idx(Atoms[j])) =>
      /\ i # j
      /\ out[x].image_idx = 0
      /\ out[x].dist_sq = EuclidDistSq(Atoms[i].atom.pos, Atoms[j].atom.pos)

-----------------------------------------------------------------------------
(* C8 *)

\* the callbacks for_each makes while for_each_contact scans from atom i
RawHits(i, conf) ==
  ForEachHits(cell, GridN, data, Atoms[i].atom.pos, Atoms[i].atom.altloc,
              conf.search_radius)

\* those of them that are Records of image k of atom j
RawHitsOn(i, j, k, conf) ==
  LET hits == RawHits(i, conf)
  IN  {x \in DOMAIN hits :
         /\ hits[x].mark.chain_idx = Atoms[j].n_ch
         /\ hits[x].mark.residue_idx = Atoms[j].n_res
         /\ hits[x].mark.atom_idx = Atoms[j].n_atom
         /\ hits[x].mark.image_idx = k}

\* with the flag set no identity-image hit within the residue is reported
NoIntraResidueContact ==
  last.conf.skip_intra_residue_links =>
    \A x \in DOMAIN out :
      ~(/\ out[x].image_idx = 0
        /\ out[x].cra1[1] = out[x].cra2[1]
        /\ out[x].cra1[2] = out[x].cra2[2])

\* hits on an image k >= 1 of an atom of the same residue pass rule 1: they
\* are reported unless the hit atom comes earlier or is the atom itself
ImageHitsPassIntraResidueRule ==
  \A i, j \in DOMAIN Atoms : \A k \in 1..Len(cell.images) :
    (SameResidue(Atoms[i], Atoms[j]) /\ i < j) =>
      Reports(i, j, k) = Cardinality(RawHitsOn(i, j, k, last.conf))

C8_WitnessFlagOff ==
  /\ ContactDone /\ PopulatedAll
  /\ ~last.conf.skip_intra_residue_links
  /\ \E i, j \in DOMAIN Atoms :
       /\ i < j /\ SameResidue(Atoms[i], Atoms[j])
       /\ Reports(i, j, 0) = 1
       /\ RawHitsOn(j, i, 0, last.conf) # {}

-----------------------------------------------------------------------------
(* C9 *)

CutoffBelow(dist_sq, conf) ==
  dist_sq * conf.special_pos_cutoff_sq[2] < conf.special_pos_cutoff_sq[1]

\* C9: a hit on the current atom itself is never passed to the callback when
\* its squared distance is below special_pos_cutoff_sq, for any image id and
\* either setting of the flag; a hit on the atom's own image (id >= 1) at or
\* above the cutoff, and within the search radius, is passed to the callback.
C9_SpecialPositionRule ==
  ContactDone =>
    /\ \A x \in DOMAIN out :
         out[x].cra1 = out[x].cra2 => ~CutoffBelow(out[x].dist_sq, last.conf)
    /\ \A i \in DOMAIN Atoms : \A k \in 1..Len(cell.images) :
         LET hits == RawHits(i, last.conf)
             far  == {x \in RawHitsOn(i, i, k, last.conf) :
                        ~CutoffBelow(hits[x].dist_sq, last.conf)}
         IN  /\ Reports(i, i, k) = Cardinality(far)
             /\ \A x \in far :
                  \E y \in DOMAIN out :
                    /\ out[y].cra1 = Idx(Atoms[i]) /\ out[y].cra2 = Idx(Atoms[i])
                    /\ out[y].image_idx = k
                    /\ out[y].dist_sq = hits[x].dist_sq

\* an atom meets its own image twice in one enumeration: once closer than the
\* cutoff, not reported, and once at or beyond it, reported
C9_Witness ==
  /\ ContactDone /\ PopulatedAll
  /\ \E i \in DOMAIN Atoms : \E k1, k2 \in 1..Len(cell.images) :
       LET hits == RawHits(i, last.conf)
       IN  /\ \E x \in RawHitsOn(i, i, k1, last.conf) :
                CutoffBelow(hits[x].dist_sq, last.conf)
           /\ Reports(i, i, k1) = 0
           /\ \E x \in RawHitsOn(i, i, k2, last.conf) :
                ~CutoffBelow(hits[x].dist_sq, last.conf)
           /\ Reports(i, i, k2) = 1

-----------------------------------------------------------------------------
(* C11 *)

AtLeastThreeBuckets == \A a \in 1..3 : GridN[a] >= 3

\* the 27 buckets visited around the home bucket h are buckets of the grid
\* and no two of them are the same bucket
StencilOk(h) ==
  LET st   == Stencil(h)
      idxs == {StencilIndex(GridN, st[i]) : i \in 1..27}
  IN  /\ idxs \subseteq DOMAIN data
      /\ Cardinality(idxs) = 27

\* ... around every home bucket of the grid
StencilInRangeAndDistinct ==
  \A u0 \in 0..(nu - 1), v0 \in 0..(nv - 1), w0 \in 0..(nw - 1) :
    StencilOk(<<u0, v0, w0>>)

\* the grid is sized by initialize and by nothing else
GridJustBuilt == last.op = "initialize"

\* the lattice shift of every stencil index an axis can see
ShiftRule ==
  \A a \in 1..3 : \A x \in -1..GridN[a] :
    LET s == LatticeShift(x, GridN[a])
    IN  /\ x >= GridN[a] => s = -1
        /\ x < 0 => s = 1
        /\ (x >= 0 /\ x < GridN[a]) => s = 0
        /\ x + s * GridN[a] \in 0..(GridN[a] - 1)

ScanDone == last.op = "for_each" /\ outcome = "ok" /\ has_model

\* the scan starts from a bucket of the grid
HomeInRange ==
  \A a \in 1..3 : HomeBucket(cell, GridN, last.pos)[a] \in 0..(GridN[a] - 1)

\* a Record is called back at most as often as it is stored
NoRecordTwice ==
  LET called == [i \in DOMAIN out |-> out[i].mark]
  IN  \A i \in DOMAIN out :
        Count(called, called[i]) <= Count(AllMarks(data), called[i])

\* C11: in a grid with at least 3 buckets on every axis, for every home bucket
\* the 27 buckets of one for_each scan are in range and pairwise distinct, the
\* lattice shift of a stencil index is -1 at or past the bucket count, +1 below
\* zero and 0 otherwise, and no stored Record is called back more than once in
\* a single scan.
C11_StencilDistinctNoDoubleCount ==
  (Initialized /\ AtLeastThreeBuckets) =>
    /\ GridJustBuilt => (StencilInRangeAndDistinct /\ ShiftRule)
    /\ ScanDone => /\ HomeInRange
                   /\ StencilOk(HomeBucket(cell, GridN, last.pos))
                   /\ NoRecordTwice

\* a scan on an axis of exactly 3 buckets, from the last bucket of that axis,
\* that calls back for a Record of the first bucket, reached with shift -1
C11_Witness ==
  /\ ScanDone /\ AtLeastThreeBuckets /\ nu = 3 /\ n_populate = 1
  /\ HomeBucket(cell, GridN, last.pos)[1] = 2
  /\ \E i \in DOMAIN out :
       HomeBucket(cell, GridN, out[i].mark.pos)[1] = 0

-----------------------------------------------------------------------------
(* C12 *)

\* the atom of the model a callback argument refers to
AtomOfCra(cra) == CHOOSE e \in SeqToSet(Atoms) : Idx(e) = cra

\* the index was populated, and only by populate(include_h = false): a
\* hydrogen of the model has no Record, every other atom has one per image
PopulatedWithoutHydrogens ==
  /\ n_populate >= 1
  /\ \A i \in DOMAIN Atoms : \A k \in 0..Len(cell.images) :
       IF is_hydrogen(Atoms[i].atom)
         THEN RecordsOf(data, Atoms[i], k) = {}
         ELSE RecordsOf(data, Atoms[i], k) # {}

HasRecord(cra) == RecordsOf(data, AtomOfCra(cra), 0) # {}

HasHydrogen == \E i \in DOMAIN Atoms : is_hydrogen(Atoms[i].atom)

\* C12: when the index was populated with include_h = false, no callback of
\* for_each_contact has a hydrogen as either member of the pair: both atoms of
\* every reported contact have a Record in the index.
C12_NoHydrogenInContacts ==
  (ContactDone /\ PopulatedWithoutHydrogens) =>
    \A x \in DOMAIN out :
      /\ ~is_hydrogen(AtomOfCra(out[x].cra1).atom)
      /\ ~is_hydrogen(AtomOfCra(out[x].cra2).atom)
      /\ HasRecord(out[x].cra1)
      /\ HasRecord(out[x].cra2)

\* C12, the second member only: the atom a callback names as the hit is never
\* a hydrogen and has a Record in the index.
C12_HitIsIndexed ==
  (ContactDone /\ PopulatedWithoutHydrogens) =>
    \A x \in DOMAIN out :
      /\ ~is_hydrogen(AtomOfCra(out[x].cra2).atom)
      /\ HasRecord(out[x].cra2)

\* a model with a hydrogen, indexed without it, whose contacts were reported
C12_HitIsIndexedWitness ==
  /\ ContactDone /\ PopulatedWithoutHydrogens /\ HasHydrogen
  /\ out # <<>>

=============================================================================
